---- MODULE Spec2Model ----
(***************************************************************************)
(* Package-resolution driver of gnopls (pkg/resolver): Resolve, readPkg,   *)
(* resolveNameAndImports, getBuiltinPkg.                                   *)
(*                                                                         *)
(* Strings are modelled as sequences of tokens so that suffix tests,       *)
(* concatenation and quote stripping are computed, not assumed:            *)
(*   "p_test"          is <<"p", "_test">>                                 *)
(*   "a_test.gno"      is <<"a", "_test", ".gno">>                         *)
(*   "\"strings\""     is <<"\"", "strings", "\"">>                        *)
(* A file path is [dir, name]; a directory is [root, rel].                 *)
(***************************************************************************)
EXTENDS Integers, Sequences, FiniteSets, TLC

VARIABLES
  patterns,        \* Resolve's patterns argument
  overlay,         \* req.Overlay: file path -> bytes
  gnoRoot,         \* result of gnoenv.GuessRootDir ("" when it failed)
  testLibFS,       \* the tree under gnoRoot/gnovm/tests/stdlibs: rel path -> os.ReadDir entries
  pc,              \* position inside Resolve
  pi,              \* index of the pattern loop
  requireBuiltin,  \* local of Resolve
  loaderPatterns,  \* local of Resolve
  walk,            \* entries fs.WalkDir has still to hand to the callback
  loadedPkgs,      \* result of gnopackages.Load
  li,              \* index of the conversion loop, then of the linking loop
  queryTree,       \* what filepath.WalkDir finds for the file= query (<<>> until walked)
  builtinGuess,    \* outcome of gnotypes.GuessBuiltinDir: "none" until called, "ok", "err"
  Packages,        \* res.Packages
  Roots,           \* res.Roots
  result,          \* what Resolve returned: "none" while running, "ok", "err"
  origin,          \* history: for each element of Packages, the step that appended it
  recorded,        \* history: for each element of Packages, its Imports keys when appended
  diskFiles,       \* history: the bytes on disk of the files of the directories read so far
  arg,             \* argument of the function under test (function-level specifications)
  ret,             \* its result
  muGnoBuiltin,    \* gnotypes: the caller that holds the mutex (0 when unlocked)
  _GNOBUILTIN,     \* gnotypes: the memoized builtin directory (<<>> when not set)
  cloneMap,        \* gnotypes: the types ctx.cloneMap has a key for
  stack            \* gnotypes: the calls of CloneTypeWithNilPackage in progress

vars == <<patterns, overlay, gnoRoot, testLibFS, pc, pi, requireBuiltin,
          loaderPatterns, walk, loadedPkgs, li, queryTree, builtinGuess, Packages, Roots,
          result, origin, recorded, diskFiles, arg, ret, muGnoBuiltin, _GNOBUILTIN,
          cloneMap, stack>>

cloneVars == <<cloneMap, stack>>

gnotypesVars == <<muGnoBuiltin, _GNOBUILTIN, cloneVars>>

driverVarsButPc == <<patterns, overlay, gnoRoot, testLibFS, pi, requireBuiltin,
                     loaderPatterns, walk, loadedPkgs, li, queryTree, builtinGuess, Packages, Roots,
                     result, origin, recorded, diskFiles>>

-----------------------------------------------------------------------------
(* Strings as token sequences *)

HasSuffix(s, suffix) ==
  /\ Len(s) >= Len(suffix)
  /\ SubSeq(s, Len(s) - Len(suffix) + 1, Len(s)) = suffix

HasPrefix(s, prefix) ==
  /\ Len(s) >= Len(prefix)
  /\ SubSeq(s, 1, Len(prefix)) = prefix

TrimPrefix(s, prefix) ==
  IF HasPrefix(s, prefix) THEN SubSeq(s, Len(prefix) + 1, Len(s)) ELSE s

TestSuffix == <<"_test">>
GnoExt == <<".gno">>
FiletestSuffix == <<"_filetest", ".gno">>
TestFileSuffix == <<"_test", ".gno">>
FilePrefix == <<"file=">>
BuiltinPattern == <<"builtin">>
builtinPath == <<"builtin">>

Join(dir, name) == [dir |-> dir, name |-> name]
Base(path) == path.name

Range(s) == {s[i] : i \in 1..Len(s)}

-----------------------------------------------------------------------------
(* go/parser.ParseFile, as the resolver uses it.                           *)
(* File bytes are abstracted to what the two parse modes can observe:      *)
(*   clause  -- the identifier of the package clause, <<>> when the clause *)
(*              is malformed                                               *)
(*   imports -- the import path literals, quotes included                  *)
(*   synerr  -- a syntax error inside the import declarations              *)

Quote == "\""
Lit(path) == <<Quote>> \o path \o <<Quote>>

Body(clause, imports, synerr) ==
  [readable |-> TRUE, clause |-> clause, imports |-> {Lit(p) : p \in imports},
   synerr |-> synerr]

\* a source that cannot be read: no overlay bytes and no such file on disk
NoSrc == [readable |-> FALSE, clause |-> <<>>, imports |-> {}, synerr |-> FALSE]

\* no file on disk
NoFiles == [p \in {} |-> NoSrc]

\* mode is "PackageClauseOnly" or "ImportsOnly"; nil is "the returned *ast.File is nil"
ParseFile(src, mode) ==
  IF ~src.readable
    THEN [nil |-> TRUE, Name |-> <<>>, Imports |-> {}, errs |-> <<"read">>]
  ELSE IF src.clause = <<>>
    THEN [nil |-> FALSE, Name |-> <<>>, Imports |-> {}, errs |-> <<"syntax">>]
  ELSE IF mode = "PackageClauseOnly"
    THEN [nil |-> FALSE, Name |-> src.clause, Imports |-> {}, errs |-> <<>>]
  ELSE [nil |-> FALSE, Name |-> src.clause, Imports |-> src.imports,
        errs |-> IF src.synerr THEN <<"syntax">> ELSE <<>>]

ParseErrors_none(srcPath, errs) == <<>>

ParseErrors(srcPath, errs) ==
  [i \in 1..Len(errs) |-> [Pos |-> srcPath, Msg |-> errs[i], Kind |-> "ParseError"]]

-----------------------------------------------------------------------------
(* packages.Package *)

NoImports == [k \in {} |-> 0]

ZeroPackage ==
  [ID |-> <<>>, PkgPath |-> <<>>, Name |-> <<>>, GoFiles |-> <<>>,
   CompiledGoFiles |-> <<>>, Imports |-> NoImports, Errors |-> <<>>]

-----------------------------------------------------------------------------
(* resolveNameAndImports *)

\* the source the parser is given: overlay bytes, else the file on disk
ResolveSrc(ov, disk, srcPath) ==
  IF srcPath \in DOMAIN ov THEN ov[srcPath]
  ELSE IF srcPath \in DOMAIN disk THEN disk[srcPath]
  ELSE NoSrc

\* importPath[1 : len(importPath)-1] when len >= 2
Unquote(importPath) ==
  IF Len(importPath) >= 2 THEN SubSeq(importPath, 2, Len(importPath) - 1)
  ELSE importPath

BetterCount_ge(count, bestNameCount) == count >= bestNameCount

BetterCount(count, bestNameCount) == count > bestNameCount

NamePreset_never(pkg) == FALSE

NamePreset(pkg) == pkg.Name # <<>>

\* one iteration of the loop over pkg.CompiledGoFiles
ResolveFile(ov, disk, pkg, srcPath, st) ==
  LET parsed == ParseFile(ResolveSrc(ov, disk, srcPath), "ImportsOnly")
      errors == st.errors \o ParseErrors(srcPath, parsed.errs)
  IN IF parsed.nil
       THEN [st EXCEPT !.errors = errors]
     ELSE
       LET name == parsed.Name
           counted == ~NamePreset(pkg) /\ ~HasSuffix(name, TestSuffix)
           count == (IF name \in DOMAIN st.names THEN st.names[name] ELSE 0) + 1
           names == IF counted
                      THEN [n \in DOMAIN st.names \cup {name} |->
                              IF n = name THEN count ELSE st.names[n]]
                      ELSE st.names
           better == counted /\ BetterCount(count, st.bestNameCount)
       IN [names |-> names,
           imports |-> st.imports \cup {Unquote(v) : v \in parsed.Imports},
           bestName |-> IF better THEN name ELSE st.bestName,
           bestNameCount |-> IF better THEN count ELSE st.bestNameCount,
           errors |-> errors]

RECURSIVE ResolveLoop(_, _, _, _, _)
ResolveLoop(ov, disk, pkg, i, st) ==
  IF i > Len(pkg.CompiledGoFiles) THEN st
  ELSE ResolveLoop(ov, disk, pkg, i + 1,
                   ResolveFile(ov, disk, pkg, pkg.CompiledGoFiles[i], st))

resolveNameAndImports(ov, disk, pkg) ==
  LET st == ResolveLoop(ov, disk, pkg, 1,
              [names |-> [n \in {} |-> 0], imports |-> {}, bestName |-> <<>>,
               bestNameCount |-> 0, errors |-> pkg.Errors])
  IN [pkg EXCEPT
        !.Name = IF NamePreset(pkg) THEN pkg.Name ELSE st.bestName,
        !.Imports = [k \in st.imports |-> 0],
        !.Errors = st.errors]

-----------------------------------------------------------------------------
(* readPkg *)

\* gnolang.ReadMemPackage(dir, pkgPath, MPAnyAll): an error, or the files of the
\* directory in name order, each [Name, Body]
MemErr == [err |-> TRUE, Files |-> <<>>]
MemPkg(files) == [err |-> FALSE, Files |-> files]

\* what the parser reads from disk for the files of a directory
DiskOf(dir, mem) ==
  [p \in {Join(dir, mem.Files[i].Name) : i \in 1..Len(mem.Files)} |->
     LET i == CHOOSE j \in 1..Len(mem.Files) : Join(dir, mem.Files[j].Name) = p
     IN mem.Files[i].Body]

\* src := []byte(file.Body); if body, ok := req.Overlay[srcPath]; ok { src = body }
ReadSrc(ov, srcPath, file) ==
  IF srcPath \in DOMAIN ov THEN ov[srcPath] ELSE file.Body

IsXTestClause_never(parsed) == FALSE

IsXTestClause(parsed) == ~parsed.nil /\ HasSuffix(parsed.Name, TestSuffix)

AddFile(pkg, srcPath) ==
  [pkg EXCEPT !.GoFiles = Append(@, srcPath),
              !.CompiledGoFiles = Append(@, srcPath)]

\* one iteration of the loop over mempkg.Files; st is [pkg, xTestPkg]
SplitFile(ov, dir, file, st) ==
  IF ~HasSuffix(file.Name, GnoExt) THEN st
  ELSE IF HasSuffix(file.Name, FiletestSuffix) THEN st
  ELSE
    LET srcPath == Join(dir, file.Name)
        src == ReadSrc(ov, srcPath, file)
    IN IF HasSuffix(file.Name, TestFileSuffix)
         THEN LET parsed == ParseFile(src, "PackageClauseOnly")
                  pkgE == [st.pkg EXCEPT
                             !.Errors = @ \o ParseErrors(srcPath, parsed.errs)]
              IN IF IsXTestClause(parsed)
                   THEN [pkg |-> pkgE, xTestPkg |-> AddFile(st.xTestPkg, srcPath)]
                   ELSE [pkg |-> AddFile(pkgE, srcPath), xTestPkg |-> st.xTestPkg]
         ELSE [pkg |-> AddFile(st.pkg, srcPath), xTestPkg |-> st.xTestPkg]

RECURSIVE SplitLoop(_, _, _, _, _)
SplitLoop(ov, dir, files, i, st) ==
  IF i > Len(files) THEN st
  ELSE SplitLoop(ov, dir, files, i + 1, SplitFile(ov, dir, files[i], st))

\* xTestPkg.ID = pkgPath + "_test"; .PkgPath likewise; .Name = pkg.Name + "_test"
XTestIdentity(pkg, xTestPkg, pkgPath) ==
  [xTestPkg EXCEPT !.ID = pkgPath \o TestSuffix,
                   !.PkgPath = pkgPath \o TestSuffix,
                   !.Name = pkg.Name \o TestSuffix]

\* the result is <<pkg, xTestPkg>>, or <<>> for the nil slice
readPkg(ov, dir, pkgPath, mem) ==
  IF mem.err THEN <<>>
  ELSE
    LET st == SplitLoop(ov, dir, mem.Files, 1,
                        [pkg |-> ZeroPackage, xTestPkg |-> ZeroPackage])
        disk == DiskOf(dir, mem)
        pkg == resolveNameAndImports(ov, disk,
                 [st.pkg EXCEPT !.ID = pkgPath, !.PkgPath = pkgPath])
        xTestPkg == resolveNameAndImports(ov, disk,
                      XTestIdentity(pkg, st.xTestPkg, pkgPath))
    IN <<pkg, xTestPkg>>

-----------------------------------------------------------------------------
(* gnoPkgToGo, listPackagesPath, getBuiltinPkg *)

\* gnomod.ParseDir(path): an error, or the descriptor with its module path
ModErr == [err |-> TRUE, Module |-> <<>>]
Mod(module) == [err |-> FALSE, Module |-> module]

gnoPkgToGo(ov, path, mod, mem) ==
  IF mod.err THEN <<>> ELSE readPkg(ov, path, mod.Module, mem)

\* filepath.WalkDir hands the callback a sequence of entries
\* [path, isDir, err, mods]; mods are the descriptor files os.Stat finds there
DescriptorNames == <<"gnomod.toml", "gno.mod">>

HasDescriptor(entry) == \E i \in 1..Len(DescriptorNames) : DescriptorNames[i] \in entry.mods

RECURSIVE ListWalk(_, _, _)
ListWalk(tree, i, gnomods) ==
  IF i > Len(tree) THEN [err |-> FALSE, gnomods |-> gnomods]
  ELSE IF tree[i].err THEN [err |-> TRUE, gnomods |-> gnomods]
  ELSE IF ~tree[i].isDir THEN ListWalk(tree, i + 1, gnomods)
  ELSE IF HasDescriptor(tree[i]) THEN ListWalk(tree, i + 1, Append(gnomods, tree[i].path))
  ELSE ListWalk(tree, i + 1, gnomods)

listPackagesPath(tree) == ListWalk(tree, 1, <<>>)

\* gnotypes.GuessBuiltinDir: (dir, nil) or ("", err)
BuiltinDir == [root |-> "gnopls/pkg/gnotypes", rel |-> <<"builtin">>]

getBuiltinPkg(guessErr) ==
  IF guessErr THEN [err |-> TRUE, pkg |-> ZeroPackage]
  ELSE [err |-> FALSE,
        pkg |-> [ZeroPackage EXCEPT
                   !.GoFiles = <<Join(BuiltinDir, <<"builtin", ".gno">>)>>,
                   !.PkgPath = builtinPath,
                   !.ID = builtinPath,
                   !.Name = builtinPath]]

\* gnolang.IsStdlib(path): the first element of the path holds no dot.
\* An import path is written <<first element, rest>>: <<"gno.land", "/p/a">>.
DottedElements == {"gno.land"}

IsStdlib_never(path) == FALSE

IsStdlib(path) == Len(path) = 0 \/ path[1] \notin DottedElements

-----------------------------------------------------------------------------
(* Resolve: the stdlib patch from the test-library directory *)

IsDot(filename) == Len(filename) > 0 /\ filename[1] = "."

DeleteFunc(files, filename) == SelectSeq(files, LAMBDA src : Base(src) # filename)

\* one iteration of the loop over testsDir
PatchEntry(pkg, testLibDir, entry) ==
  IF entry.isDir THEN pkg
  ELSE IF IsDot(entry.Name) \/ ~HasSuffix(entry.Name, GnoExt) THEN pkg
  ELSE LET file == Join(testLibDir, entry.Name)
       IN [pkg EXCEPT
             !.GoFiles = Append(DeleteFunc(@, entry.Name), file),
             !.CompiledGoFiles = Append(DeleteFunc(@, entry.Name), file)]

RECURSIVE PatchLoop(_, _, _, _)
PatchLoop(pkg, testLibDir, testsDir, i) ==
  IF i > Len(testsDir) THEN pkg
  ELSE PatchLoop(PatchEntry(pkg, testLibDir, testsDir[i]), testLibDir, testsDir, i + 1)

-----------------------------------------------------------------------------
(* The environment Resolve runs in: bounded sets its inputs are drawn from *)

MaxPatterns == 2
MaxLoaded == 2

LibsRoot == "gnovm/stdlibs"
TestLibsRoot == "gnovm/tests/stdlibs"
Dir(root, rel) == [root |-> root, rel |-> rel]
DirA == Dir("/w", <<"a">>)
DirB == Dir("/w", <<"b">>)

PathA == <<"gno.land", "/p/a">>
PathB == <<"gno.land", "/p/b">>
PathMissing == <<"gno.land", "/p/zz">>
PathStrings == <<"strings">>
PathStd == <<"std">>
PathTesting == <<"testing">>

File(name, body) == [Name |-> name, isDir |-> FALSE, Body |-> body]
SubDir(name) == [Name |-> name, isDir |-> TRUE, Body |-> NoSrc]

\* patterns: a directory, a file= query, the builtin sentinel
DirPattern == <<"/w/", "...">>
FileQuery == <<"file=", "/w/a/", "a.gno">>
PatternUniverse == {BuiltinPattern, DirPattern, FileQuery}
PatternLists == UNION {[1..n -> PatternUniverse] : n \in 0..MaxPatterns}

\* what filepath.WalkDir finds under the directory of a file= query
WalkEntry(path, isDir, err, mods) ==
  [path |-> path, isDir |-> isDir, err |-> err, mods |-> mods]
ListTrees(dir) ==
  { <<WalkEntry(dir, FALSE, TRUE, {})>>,
    <<WalkEntry(dir, TRUE, FALSE, {})>>,
    <<WalkEntry(dir, TRUE, FALSE, {"gnomod.toml"}),
      WalkEntry(dir \o <<"a.gno">>, FALSE, FALSE, {})>>,
    <<WalkEntry(dir, TRUE, FALSE, {"gno.mod"}),
      WalkEntry(dir \o <<"sub">>, TRUE, FALSE, {"gnomod.toml", "gno.mod"})>> }

\* req.Overlay: unsaved bytes for a file of /w/a and for a file that is not on
\* disk; the other directories are read from disk
Overlays ==
  { [p \in {Join(DirA, <<"a", ".gno">>), Join(DirA, <<"new", ".gno">>)} |->
       Body(<<"q">>, {PathB}, FALSE)] }

\* the standard-library tree, as fs.WalkDir reports it: the root is missing, or
\* it holds an unreadable directory std and a directory strings with a file.
\* The relative path of a library directory is its import path; the trees of
\* the gno root hold no directory named "builtin" and no dotted first element.
LibWalks ==
  { <<WalkEntry(<<".">>, FALSE, TRUE, {})>>,
    <<WalkEntry(<<".">>, TRUE, FALSE, {}),
      WalkEntry(PathStd, TRUE, FALSE, {}),
      WalkEntry(PathStd, TRUE, TRUE, {}),
      WalkEntry(PathStrings, TRUE, FALSE, {}),
      WalkEntry(PathStrings \o <<"/a.gno">>, FALSE, FALSE, {})>> }

LibMems ==
  { MemPkg(<<File(<<"a", ".gno">>, Body(<<"strings">>, {PathStd, PathTesting}, FALSE)),
             File(<<"b", ".gno">>, Body(<<"strings">>, {}, FALSE)),
             File(<<"z", "_filetest", ".gno">>, Body(<<"main">>, {}, FALSE))>>),
    MemPkg(<<File(<<"a", "_test", ".gno">>,
                  Body(<<"strings", "_test">>, {PathStrings}, FALSE))>>) }

\* the test-library tree: relative path -> os.ReadDir entries
TestLibOrder == <<PathStrings, PathTesting>>
TestLibTrees ==
  { [p \in {} |-> <<>>],
    [p \in {PathStrings, PathTesting} |->
       IF p = PathStrings
         THEN <<File(<<".", "h", ".gno">>, Body(<<"strings">>, {}, FALSE)),
                File(<<"a", ".gno">>, Body(<<"strings">>, {PathA}, FALSE)),
                File(<<"c", ".gno">>, Body(<<"strings">>, {}, FALSE)),
                SubDir(<<"d", ".gno">>),
                File(<<"notes", ".md">>, NoSrc),
                File(<<"z", "_filetest", ".gno">>, Body(<<"main">>, {}, FALSE))>>
         ELSE <<File(<<"t", ".gno">>, Body(<<"testing">>, {PathStrings}, FALSE))>>] }

\* what gnopackages.Load returns: packages [Dir, ImportPath, Match], one per
\* directory; Match holds the patterns a package matched and is empty for a
\* package loaded as a dependency (Deps: true) of a matched one.  ImportPath is
\* the module path of the directory's descriptor; each import path is returned
\* once.  The standard-library package is loaded for a pattern of its own.
Loaded(dir, importPath, match) == [Dir |-> dir, ImportPath |-> importPath, Match |-> match]
MatchChoices(lp) == {{}} \cup (IF lp = <<>> THEN {} ELSE {Range(lp)})
LoadedChoices(lp) ==
  << {Loaded(DirA, PathA, m) : m \in MatchChoices(lp)},
     {Loaded(DirB, PathB, m) : m \in MatchChoices(lp)},
     {Loaded(Dir(LibsRoot, PathStrings), PathStrings, m) : m \in MatchChoices(lp) \ {{}}} >>

\* the lists Load can return from the k-th choice on: each package is absent
\* or present once, in the order of LoadedChoices
RECURSIVE LoadFrom(_, _)
LoadFrom(lp, k) ==
  IF k > Len(LoadedChoices(lp)) THEN {<<>>}
  ELSE LET rest == LoadFrom(lp, k + 1)
       IN rest \cup {<<c>> \o r : c \in LoadedChoices(lp)[k], r \in rest}

\* up to MaxLoaded packages, one of them matched when there are any
LoadResults(lp) ==
  {s \in LoadFrom(lp, 1) :
     /\ Len(s) <= MaxLoaded
     /\ Len(s) > 0 => \E i \in 1..Len(s) : s[i].Match # {}}

\* the package directories of the workspace, as gnolang.ReadMemPackage reads them
UserMems ==
  { MemErr,
    MemPkg(<<File(<<"a", ".gno">>,
                  Body(<<"p">>, {PathStrings, PathB, PathMissing}, FALSE)),
             File(<<"bad", ".gno">>, Body(<<>>, {}, FALSE))>>),
    MemPkg(<<File(<<"README", ".md">>, NoSrc),
             File(<<"a", ".gno">>, Body(<<"p">>, {PathA}, FALSE)),
             File(<<"a", "_test", ".gno">>,
                  Body(<<"p", "_test">>, {PathA, PathA \o TestSuffix}, TRUE)),
             File(<<"b", "_test", ".gno">>, Body(<<"p">>, {builtinPath}, FALSE)),
             File(<<"z", "_filetest", ".gno">>, Body(<<"main">>, {}, FALSE))>>) }

-----------------------------------------------------------------------------
(* Resolve *)

IdleArg == [ov |-> [p \in {} |-> NoSrc], disk |-> [p \in {} |-> NoSrc], dir |-> DirA,
            pkgPath |-> <<>>, mem |-> MemErr, pkg |-> ZeroPackage, tree |-> <<>>]

Init ==
  /\ patterns \in PatternLists
  /\ overlay \in Overlays
  /\ gnoRoot = ""
  /\ testLibFS = [p \in {} |-> <<>>]
  /\ pc = "patterns"
  /\ pi = 1
  /\ requireBuiltin = FALSE
  /\ loaderPatterns = <<>>
  /\ walk = <<>>
  /\ loadedPkgs = <<>>
  /\ li = 1
  /\ queryTree = <<>>
  /\ builtinGuess = "none"
  /\ Packages = <<>>
  /\ Roots = <<>>
  /\ result = "none"
  /\ origin = <<>>
  /\ recorded = <<>>
  /\ diskFiles = NoFiles
  /\ arg = IdleArg
  /\ ret = <<>>
  /\ muGnoBuiltin = 0
  /\ _GNOBUILTIN = <<>>
  /\ cloneMap = {}
  /\ stack = <<>>

\* dir, _ := filepath.Split(pattern)
SplitDir(path) == IF Len(path) = 0 THEN <<>> ELSE SubSeq(path, 1, Len(path) - 1)

IsBuiltinPattern_never(pattern) == FALSE

\* pattern == "builtin"
IsBuiltinPattern(pattern) == pattern = BuiltinPattern

ReturnErr ==
  /\ result' = "err"
  /\ pc' = "done"

QueryFailed_never(r) == FALSE

QueryFailed_unmatched(r) == r.err \/ r.gnomods = <<>>

\* gnomodsRes, err := listPackagesPath(dir); if err != nil
QueryFailed(r) == r.err

\* one iteration of the loop over patterns
ClassifyPattern ==
  /\ pc = "patterns"
  /\ pi <= Len(patterns)
  /\ LET pattern == patterns[pi] IN
       IF HasPrefix(pattern, FilePrefix)
         THEN \E tree \in (IF queryTree = <<>>
                             THEN ListTrees(TrimPrefix(SplitDir(pattern), FilePrefix))
                             ELSE {queryTree}) :
                LET r == listPackagesPath(tree) IN
                  /\ queryTree' = tree
                  /\ IF QueryFailed(r)
                       THEN /\ ReturnErr
                            /\ UNCHANGED <<pi, loaderPatterns>>
                       ELSE /\ loaderPatterns' = loaderPatterns \o r.gnomods
                            /\ pi' = pi + 1
                            /\ UNCHANGED <<pc, result>>
                  /\ UNCHANGED requireBuiltin
       ELSE IF IsBuiltinPattern(pattern)
         THEN /\ requireBuiltin' = TRUE
              /\ pi' = pi + 1
              /\ UNCHANGED <<loaderPatterns, queryTree, pc, result>>
       ELSE /\ loaderPatterns' = Append(loaderPatterns, pattern)
            /\ pi' = pi + 1
            /\ UNCHANGED <<requireBuiltin, queryTree, pc, result>>
  /\ UNCHANGED <<patterns, overlay, gnoRoot, testLibFS, walk, loadedPkgs, li,
                 builtinGuess, Packages, Roots, origin, recorded, diskFiles, arg, ret, gnotypesVars>>

\* gnoRoot, err := gnoenv.GuessRootDir(); the trees under it are what they are
GuessRoot ==
  /\ pc = "patterns"
  /\ pi > Len(patterns)
  /\ \E root \in {"", "/gno"} :
       /\ gnoRoot' = root
       /\ IF root = ""
            THEN /\ pc' = "builtin"
                 /\ UNCHANGED <<walk, testLibFS>>
            ELSE /\ pc' = "stdlibs"
                 /\ walk' \in LibWalks
                 /\ testLibFS' \in TestLibTrees
  /\ UNCHANGED <<patterns, overlay, pi, requireBuiltin, loaderPatterns, loadedPkgs,
                 li, queryTree, builtinGuess, Packages, Roots, result, origin,
                 recorded, diskFiles, arg, ret, gnotypesVars>>

\* if len(pkg.GoFiles) == 0 { continue }
Materialized(pkg) == Len(pkg.GoFiles) # 0

\* testsDir, err := os.ReadDir(testLibDir); the loop over its entries
PatchFromTestLib(tree, pkg, path) ==
  IF path \in DOMAIN tree
    THEN PatchLoop(pkg, Dir(TestLibsRoot, path), tree[path], 1)
    ELSE pkg

\* what ReadMemPackage reads in a test-library directory: its files
TestLibMem(entries) == MemPkg(SelectSeq(entries, LAMBDA e : ~e.isDir))

\* the files of the test-library directory of a path, as they are on disk
TestLibDisk(tree, path) ==
  IF path \in DOMAIN tree
    THEN DiskOf(Dir(TestLibsRoot, path), TestLibMem(tree[path]))
    ELSE NoFiles

\* the body of "for _, pkg := range pkgs" in the stdlib walk
InjectLib(tree, pkgs, path) ==
  LET kept == SelectSeq(pkgs, Materialized)
  IN [i \in 1..Len(kept) |-> PatchFromTestLib(tree, kept[i], path)]

ImportKeys(pkgs) == [i \in 1..Len(pkgs) |-> DOMAIN pkgs[i].Imports]
Tag(pkgs, t) == [i \in 1..Len(pkgs) |-> t]

\* the files of disk, and those of others for the other paths
Merge(disk, others) ==
  [p \in DOMAIN disk \cup DOMAIN others |->
     IF p \in DOMAIN disk THEN disk[p] ELSE others[p]]

AppendPackages_linked(new, tag, read) ==
  /\ Packages' = Packages \o
                    [i \in 1..Len(new) |->
                       [new[i] EXCEPT !.Imports =
                          [k \in DOMAIN new[i].Imports |->
                             IF \E j \in 1..Len(Packages) : Packages[j].PkgPath = k
                               THEN CHOOSE j \in 1..Len(Packages) : Packages[j].PkgPath = k
                               ELSE 0]]]
  /\ origin' = origin \o Tag(new, tag)
  /\ recorded' = recorded \o ImportKeys(new)
  /\ diskFiles' = Merge(read, diskFiles)

\* read is what was on disk in the directories the packages were made from
AppendPackages(new, tag, read) ==
  /\ Packages' = Packages \o new
  /\ origin' = origin \o Tag(new, tag)
  /\ recorded' = recorded \o ImportKeys(new)
  /\ diskFiles' = Merge(read, diskFiles)

SkipEntry(entry) == entry.err \/ ~entry.isDir \/ entry.path = <<".">>

\* a directory whose ReadDir fails is reported twice, the second time with err
LibMemsAt(w) ==
  IF Len(w) > 1 /\ w[2].err /\ w[2].path = w[1].path THEN {MemErr} ELSE LibMems

\* one call of the callback of the walk over libsRoot
StdlibStep ==
  /\ pc = "stdlibs"
  /\ walk # <<>>
  /\ walk' = Tail(walk)
  /\ LET entry == Head(walk) IN
       IF SkipEntry(entry)
         THEN UNCHANGED <<Packages, origin, recorded, diskFiles>>
         ELSE \E mem \in LibMemsAt(walk) :
                AppendPackages(
                  InjectLib(testLibFS,
                            readPkg(overlay, Dir(LibsRoot, entry.path), entry.path, mem),
                            entry.path),
                  "lib",
                  Merge(DiskOf(Dir(LibsRoot, entry.path), mem),
                        TestLibDisk(testLibFS, entry.path)))
  /\ UNCHANGED <<patterns, overlay, gnoRoot, testLibFS, pc, pi, requireBuiltin,
                 loaderPatterns, loadedPkgs, li, queryTree, builtinGuess, Roots, result,
                 arg, ret, gnotypesVars>>

TestLibWalk(tree) ==
  IF DOMAIN tree = {}
    THEN <<WalkEntry(<<".">>, FALSE, TRUE, {})>>
    ELSE <<WalkEntry(<<".">>, TRUE, FALSE, {})>>
         \o [i \in 1..Len(SelectSeq(TestLibOrder, LAMBDA p : p \in DOMAIN tree)) |->
               WalkEntry(SelectSeq(TestLibOrder, LAMBDA p : p \in DOMAIN tree)[i],
                         TRUE, FALSE, {})]

StdlibsDone ==
  /\ pc = "stdlibs"
  /\ walk = <<>>
  /\ pc' = "testlibs"
  /\ walk' = TestLibWalk(testLibFS)
  /\ UNCHANGED <<patterns, overlay, gnoRoot, testLibFS, pi, requireBuiltin,
                 loaderPatterns, loadedPkgs, li, queryTree, builtinGuess, Packages, Roots, result,
                 origin, recorded, diskFiles, arg, ret, gnotypesVars>>

ContainsPkgPath_never(pkgs, path) == FALSE

\* slices.ContainsFunc(res.Packages, func(p) bool { return p.PkgPath == path })
ContainsPkgPath(pkgs, path) == \E i \in 1..Len(pkgs) : pkgs[i].PkgPath = path

\* one call of the callback of the walk over testLibsRoot
TestlibStep ==
  /\ pc = "testlibs"
  /\ walk # <<>>
  /\ walk' = Tail(walk)
  /\ LET entry == Head(walk) IN
       IF SkipEntry(entry) \/ ContainsPkgPath(Packages, entry.path)
         THEN UNCHANGED <<Packages, origin, recorded, diskFiles>>
         ELSE AppendPackages(
                SelectSeq(readPkg(overlay, Dir(TestLibsRoot, entry.path), entry.path,
                                  TestLibMem(testLibFS[entry.path])),
                          Materialized),
                "testlib",
                TestLibDisk(testLibFS, entry.path))
  /\ UNCHANGED <<patterns, overlay, gnoRoot, testLibFS, pc, pi, requireBuiltin,
                 loaderPatterns, loadedPkgs, li, queryTree, builtinGuess, Roots, result,
                 arg, ret, gnotypesVars>>

TestlibsDone ==
  /\ pc = "testlibs"
  /\ walk = <<>>
  /\ pc' = "builtin"
  /\ UNCHANGED <<patterns, overlay, gnoRoot, testLibFS, pi, requireBuiltin,
                 loaderPatterns, walk, loadedPkgs, li, queryTree, builtinGuess, Packages, Roots,
                 result, origin, recorded, diskFiles, arg, ret, gnotypesVars>>

IDs_names(pkgs) == [i \in 1..Len(pkgs) |-> pkgs[i].Name]

IDs(pkgs) == [i \in 1..Len(pkgs) |-> pkgs[i].ID]

\* if requireBuiltin { if pkg, err := getBuiltinPkg(); err == nil { ... } }
InjectBuiltin ==
  /\ pc = "builtin"
  /\ pc' = "load"
  /\ IF requireBuiltin
       THEN \E guessErr \in BOOLEAN :
              LET r == getBuiltinPkg(guessErr) IN
                /\ builtinGuess' = IF guessErr THEN "err" ELSE "ok"
                /\ IF ~r.err
                     THEN /\ AppendPackages(<<r.pkg>>, "builtin", NoFiles)
                          /\ Roots' = Append(Roots, r.pkg.ID)
                     ELSE UNCHANGED <<Packages, Roots, origin, recorded, diskFiles>>
       ELSE UNCHANGED <<builtinGuess, Packages, Roots, origin, recorded, diskFiles>>
  /\ UNCHANGED <<patterns, overlay, gnoRoot, testLibFS, pi, requireBuiltin,
                 loaderPatterns, walk, loadedPkgs, li, queryTree, result, arg, ret, gnotypesVars>>

\* loadedPkgs, err := gnopackages.Load(loadCfg, loaderPatterns...)
Load ==
  /\ pc = "load"
  /\ \/ /\ ReturnErr
        /\ UNCHANGED <<loadedPkgs, li>>
     \/ /\ loadedPkgs' \in LoadResults(loaderPatterns)
        /\ li' = 1
        /\ pc' = "convert"
        /\ UNCHANGED result
  /\ UNCHANGED <<patterns, overlay, gnoRoot, testLibFS, pi, requireBuiltin,
                 loaderPatterns, walk, queryTree, builtinGuess, Packages, Roots, origin,
                 recorded, diskFiles, arg, ret, gnotypesVars>>

IsRoot_always(gnopkg) == TRUE

\* if len(gnopkg.Match) != 0
IsRoot(gnopkg) == gnopkg.Match # {}

\* one iteration of the loop over loadedPkgs
Convert ==
  /\ pc = "convert"
  /\ li <= Len(loadedPkgs)
  /\ li' = li + 1
  /\ LET gnopkg == loadedPkgs[li] IN
       IF IsStdlib(gnopkg.ImportPath)
         THEN UNCHANGED <<Packages, Roots, origin, recorded, diskFiles>>
         ELSE \E mod \in {ModErr, Mod(gnopkg.ImportPath)}, mem \in UserMems :
                LET pkgs == gnoPkgToGo(overlay, gnopkg.Dir, mod, mem) IN
                  /\ AppendPackages(pkgs, IF gnopkg.Match # {} THEN "matched" ELSE "dep",
                                    IF mod.err THEN NoFiles ELSE DiskOf(gnopkg.Dir, mem))
                  /\ Roots' = IF IsRoot(gnopkg) THEN Roots \o IDs(pkgs) ELSE Roots
  /\ UNCHANGED <<patterns, overlay, gnoRoot, testLibFS, pc, pi, requireBuiltin,
                 loaderPatterns, walk, loadedPkgs, queryTree, builtinGuess, result, arg,
                 ret, gnotypesVars>>

ConvertDone ==
  /\ pc = "convert"
  /\ li > Len(loadedPkgs)
  /\ pc' = "link"
  /\ li' = 1
  /\ UNCHANGED <<patterns, overlay, gnoRoot, testLibFS, pi, requireBuiltin,
                 loaderPatterns, walk, loadedPkgs, queryTree, builtinGuess, Packages,
                 Roots, result, origin, recorded, diskFiles, arg, ret, gnotypesVars>>

findGoPkg_any(pkgs, pkgpath) == IF Len(pkgs) > 0 THEN 1 ELSE 0

\* the index in res.Packages of the first package with that PkgPath, 0 for nil
findGoPkg(pkgs, pkgpath) ==
  IF \E i \in 1..Len(pkgs) : pkgs[i].PkgPath = pkgpath
    THEN CHOOSE i \in 1..Len(pkgs) :
           /\ pkgs[i].PkgPath = pkgpath
           /\ \A j \in 1..(i - 1) : pkgs[j].PkgPath # pkgpath
    ELSE 0

KeptImports_all(pkgs, pkg) == DOMAIN pkg.Imports

\* the keys that are not put on toDelete
KeptImports(pkgs, pkg) == {k \in DOMAIN pkg.Imports : findGoPkg(pkgs, k) # 0}

\* "for importPath := range pkg.Imports" visits the keys in an order the
\* runtime picks: any sequence that holds every key once
KeyOrders(keys) ==
  {o \in [1..Cardinality(keys) -> keys] :
     \A i, j \in 1..Cardinality(keys) : i # j => o[i] # o[j]}

LinkImport_reset(pkgs, pkg, st, importPath) ==
  IF importPath \in KeptImports(pkgs, pkg)
    THEN [Imports |-> [st.Imports EXCEPT ![importPath] = findGoPkg(pkgs, importPath)],
          toDelete |-> <<>>]
    ELSE [st EXCEPT !.toDelete = Append(@, importPath)]

\* one iteration of the loop over pkg.Imports; st is [Imports, toDelete]
LinkImport(pkgs, pkg, st, importPath) ==
  IF importPath \in KeptImports(pkgs, pkg)
    THEN [st EXCEPT !.Imports[importPath] = findGoPkg(pkgs, importPath)]
    ELSE [st EXCEPT !.toDelete = Append(@, importPath)]

RECURSIVE LinkLoop(_, _, _, _, _)
LinkLoop(pkgs, pkg, order, i, st) ==
  IF i > Len(order) THEN st
  ELSE LinkLoop(pkgs, pkg, order, i + 1, LinkImport(pkgs, pkg, st, order[i]))

\* for _, toDel := range toDelete { delete(pkg.Imports, toDel) }
DeleteKeys(imports, toDelete) ==
  [k \in DOMAIN imports \ Range(toDelete) |-> imports[k]]

IsBuiltinPkg_always(pkg) == TRUE

\* if pkg.PkgPath == "builtin" { continue }
IsBuiltinPkg(pkg) == pkg.PkgPath = builtinPath

LinkPackage_errors(pkgs, pkg, order) ==
  IF IsBuiltinPkg(pkg) THEN pkg
  ELSE LET st == LinkLoop(pkgs, pkg, order, 1,
                          [Imports |-> pkg.Imports, toDelete |-> <<>>])
       IN [pkg EXCEPT
             !.Imports = DeleteKeys(st.Imports, st.toDelete),
             !.Errors = @ \o [i \in 1..Len(st.toDelete) |->
                                [Pos |-> Join(DirA, <<>>), Msg |-> "missed import",
                                 Kind |-> "ListError"]]]

\* the body of the loop "Resolve imports" for one package, its keys visited
\* in the given order
LinkPackage(pkgs, pkg, order) ==
  IF IsBuiltinPkg(pkg) THEN pkg
  ELSE LET st == LinkLoop(pkgs, pkg, order, 1,
                          [Imports |-> pkg.Imports, toDelete |-> <<>>])
       IN [pkg EXCEPT !.Imports = DeleteKeys(st.Imports, st.toDelete)]

\* the packages the loop "Resolve imports" can leave, from the i-th on, over
\* the iteration orders of each package's Imports
RECURSIVE LinkOutcomes(_, _)
LinkOutcomes(pkgs, i) ==
  IF i > Len(pkgs) THEN {<<>>}
  ELSE {<<p>> \o rest :
          p \in {LinkPackage(pkgs, pkgs[i], order) :
                   order \in KeyOrders(DOMAIN pkgs[i].Imports)},
          rest \in LinkOutcomes(pkgs, i + 1)}

\* the loop over res.Packages
Link ==
  /\ pc = "link"
  /\ li <= Len(Packages)
  /\ li' = Len(Packages) + 1
  /\ Packages' \in LinkOutcomes(Packages, 1)
  /\ UNCHANGED <<patterns, overlay, gnoRoot, testLibFS, pc, pi, requireBuiltin,
                 loaderPatterns, walk, loadedPkgs, queryTree, builtinGuess, Roots, result,
                 origin, recorded, diskFiles, arg, ret, gnotypesVars>>

\* return &res, nil
Return ==
  /\ pc = "link"
  /\ li > Len(Packages)
  /\ pc' = "done"
  /\ result' = "ok"
  /\ UNCHANGED <<patterns, overlay, gnoRoot, testLibFS, pi, requireBuiltin,
                 loaderPatterns, walk, loadedPkgs, li, queryTree, builtinGuess, Packages, Roots,
                 origin, recorded, diskFiles, arg, ret, gnotypesVars>>

Next ==
  \/ ClassifyPattern
  \/ GuessRoot
  \/ StdlibStep
  \/ StdlibsDone
  \/ TestlibStep
  \/ TestlibsDone
  \/ InjectBuiltin
  \/ Load
  \/ Convert
  \/ ConvertDone
  \/ Link
  \/ Return

Spec == Init /\ [][Next]_vars

-----------------------------------------------------------------------------
(* resolveNameAndImports on its own: a package with up to MaxNameFiles files *)

MaxNameFiles == 3

NameFileTokens == <<"f1", "f2", "f3", "f4", "f5">>
NameFile(i) == Join(DirA, <<NameFileTokens[i], ".gno">>)

NameBodies ==
  { Body(<<"x">>, {}, FALSE),
    Body(<<"x">>, {PathB}, TRUE),
    Body(<<"y">>, {PathStrings}, FALSE),
    Body(<<"x", "_test">>, {PathA}, FALSE),
    Body(<<>>, {}, FALSE),
    NoSrc }

PresetNames == {<<>>, <<"p", "_test">>}

NameArgs ==
  UNION {{ [IdleArg EXCEPT
              !.disk = [p \in {NameFile(i) : i \in {j \in 1..n : b[j].readable}} |->
                          b[CHOOSE i \in 1..n : NameFile(i) = p]],
              !.pkg = [ZeroPackage EXCEPT
                         !.Name = preset,
                         !.GoFiles = [i \in 1..n |-> NameFile(i)],
                         !.CompiledGoFiles = [i \in 1..n |-> NameFile(i)]]]
           : b \in [1..n -> NameBodies], preset \in PresetNames }
         : n \in 0..MaxNameFiles}

IdleDriver ==
  /\ patterns = <<>>
  /\ overlay = [p \in {} |-> NoSrc]
  /\ gnoRoot = ""
  /\ testLibFS = [p \in {} |-> <<>>]
  /\ pi = 1
  /\ requireBuiltin = FALSE
  /\ loaderPatterns = <<>>
  /\ walk = <<>>
  /\ loadedPkgs = <<>>
  /\ li = 1
  /\ queryTree = <<>>
  /\ builtinGuess = "none"
  /\ Packages = <<>>
  /\ Roots = <<>>
  /\ result = "none"
  /\ origin = <<>>
  /\ recorded = <<>>
  /\ diskFiles = NoFiles

\* the gnotypes package as it is when nobody has called GuessBuiltinDir
IdleClone == cloneMap = {} /\ stack = <<>>

IdleGnotypes == muGnoBuiltin = 0 /\ _GNOBUILTIN = <<>> /\ IdleClone

InitName ==
  /\ IdleDriver
  /\ IdleGnotypes
  /\ pc = "call resolveNameAndImports"
  /\ arg \in NameArgs
  /\ ret = <<>>

CallResolveNameAndImports ==
  /\ pc = "call resolveNameAndImports"
  /\ pc' = "resolveNameAndImports returned"
  /\ ret' = <<resolveNameAndImports(arg.ov, arg.disk, arg.pkg)>>
  /\ UNCHANGED <<driverVarsButPc, gnotypesVars, arg>>

NextName == CallResolveNameAndImports

SpecName == InitName /\ [][NextName]_vars

-----------------------------------------------------------------------------
(* readPkg on its own: one directory, one overlay *)

ReadFileNames ==
  << <<"a", ".gno">>, <<"a", "_test", ".gno">>, <<"b", "_test", ".gno">>,
     <<"notes", ".md">>, <<"z", "_filetest", ".gno">> >>

\* a name that is never on disk, for the overlay alone
NewFileName == <<"new", "_test", ".gno">>

ReadBodies ==
  { Body(<<"p">>, {PathB}, FALSE),
    Body(<<"p", "_test">>, {PathA}, FALSE),
    Body(<<>>, {}, FALSE) }

OverlayBodies == ReadBodies \cup {Body(<<"q">>, {PathStrings}, FALSE)}

\* the bodies a file of that name can have on disk
DiskBodies(name) ==
  IF HasSuffix(name, GnoExt) /\ ~HasSuffix(name, FiletestSuffix)
    THEN ReadBodies ELSE {Body(<<"main">>, {}, FALSE)}

\* a directory: for each name, absent (NoSrc) or a body
Listings ==
  {l \in [1..Len(ReadFileNames) -> ReadBodies \cup {Body(<<"main">>, {}, FALSE), NoSrc}] :
     \A i \in 1..Len(ReadFileNames) :
        l[i].readable => l[i] \in DiskBodies(ReadFileNames[i])}

\* ReadMemPackage on a listing: the files present, in name order; an error for
\* a directory that holds none
MemOfListing(l) ==
  LET present == SelectSeq([i \in 1..Len(ReadFileNames) |-> i], LAMBDA i : l[i].readable)
  IN IF present = <<>> THEN MemErr
     ELSE MemPkg([k \in 1..Len(present) |->
                    File(ReadFileNames[present[k]], l[present[k]])])

ReadOverlays(dir) ==
  {[p \in {} |-> NoSrc]}
  \cup {[p \in {Join(dir, name)} |-> body] :
          name \in {ReadFileNames[1], ReadFileNames[2], ReadFileNames[3], NewFileName},
          body \in OverlayBodies}

ReadArgs ==
  { [IdleArg EXCEPT !.ov = ov, !.dir = DirA, !.pkgPath = PathA, !.mem = mem]
    : ov \in ReadOverlays(DirA), mem \in {MemOfListing(l) : l \in Listings} }

InitRead ==
  /\ IdleDriver
  /\ IdleGnotypes
  /\ pc = "call readPkg"
  /\ arg \in ReadArgs
  /\ ret = <<>>

CallReadPkg ==
  /\ pc = "call readPkg"
  /\ pc' = "readPkg returned"
  /\ ret' = readPkg(arg.ov, arg.dir, arg.pkgPath, arg.mem)
  /\ UNCHANGED <<driverVarsButPc, gnotypesVars, arg>>

NextRead == CallReadPkg

SpecRead == InitRead /\ [][NextRead]_vars

-----------------------------------------------------------------------------
(* listPackagesPath on its own: a walk of up to MaxWalk callbacks *)

MaxWalk == 3

WalkNames == <<"d1", "d2", "d3", "d4", "d5">>
WalkRoot == <<"/w/a/">>

\* the path of the i-th callback: the root first, then entries below it
WalkPath(i) == IF i = 1 THEN WalkRoot ELSE WalkRoot \o <<WalkNames[i - 1]>>

\* what one callback can be handed: a directory with any of the descriptor
\* files, a file, or an error (for a directory that cannot be read, or an
\* entry that cannot be examined)
WalkEntries(i) ==
  {WalkEntry(WalkPath(i), TRUE, FALSE, mods) : mods \in SUBSET Range(DescriptorNames)}
  \cup {WalkEntry(WalkPath(i), FALSE, FALSE, {})}
  \cup {WalkEntry(WalkPath(i), isDir, TRUE, {}) : isDir \in BOOLEAN}

\* the callbacks filepath.WalkDir makes when none of them stops the walk; the
\* root is a directory or an error
RECURSIVE WalkSeqs(_)
WalkSeqs(n) ==
  IF n = 0 THEN {<<>>}
  ELSE {Append(t, e) : t \in WalkSeqs(n - 1), e \in WalkEntries(n)}

WalkTrees ==
  UNION {{t \in WalkSeqs(n) : t[1].isDir \/ t[1].err} : n \in 1..MaxWalk}

ListArgs == {[IdleArg EXCEPT !.tree = t] : t \in WalkTrees}

InitList ==
  /\ IdleDriver
  /\ IdleGnotypes
  /\ pc = "call listPackagesPath"
  /\ arg \in ListArgs
  /\ ret = <<>>

CallListPackagesPath ==
  /\ pc = "call listPackagesPath"
  /\ pc' = "listPackagesPath returned"
  /\ ret' = listPackagesPath(arg.tree)
  /\ UNCHANGED <<driverVarsButPc, gnotypesVars, arg>>

NextList == CallListPackagesPath

SpecList == InitList /\ [][NextList]_vars

-----------------------------------------------------------------------------
(* Package gnotypes: init and IsGnoBuiltin.                                 *)
(* An identifier is <<first letter, rest>>.  A types.Object is              *)
(* [Name, kind, recv, typeParam, pkg]: kind is "Func", "TypeName" or "Var", *)
(* recv says that a Func's signature has a receiver, pkg is "builtin" for   *)
(* an object of builtin.gno and "nil" for an object of types.Universe.      *)
(* The types a cloned type refers to (cloneMap) are not modelled.           *)

MaxDefs == 2

Obj(first, rest, kind, recv, typeParam) ==
  [Name |-> <<first, rest>>, kind |-> kind, recv |-> recv, typeParam |-> typeParam,
   pkg |-> "builtin"]

\* obj.Exported(): the name starts with an upper-case letter
Exported(name) == name[1] \in {"C", "E", "S", "T"}

excludeTypes ==
  {<<"F", "loatType">>, <<"I", "ntegerType">>, <<"E", "rror">>, <<"T", "ype">>,
   <<"T", "ype1">>, <<"C", "omplexType">>}

\* the objects of types.Universe before init runs
GoUniverse ==
  LET objs == {[Obj("i", "nt", "TypeName", FALSE, FALSE) EXCEPT !.pkg = "nil"],
               [Obj("e", "rror", "TypeName", FALSE, FALSE) EXCEPT !.pkg = "nil"],
               [Obj("l", "en", "Func", FALSE, FALSE) EXCEPT !.pkg = "nil"]}
  IN [n \in {o.Name : o \in objs} |-> CHOOSE o \in objs : o.Name = n]

\* the declarations of builtin/builtin.gno that the package's test relies on
BuiltinGno ==
  << Obj("c", "rossing", "Func", FALSE, FALSE),
     Obj("c", "ross", "Func", FALSE, FALSE),
     Obj("a", "ddress", "TypeName", FALSE, FALSE),
     Obj("g", "nocoin", "TypeName", FALSE, FALSE),
     Obj("g", "nocoins", "TypeName", FALSE, FALSE),
     Obj("r", "ealm", "TypeName", FALSE, FALSE) >>

\* other objects info.Defs can hold for a builtin file: excluded types, names
\* of the Go universe, methods (one named like a function), an exported
\* function, a further function, a variable, a type parameter
OtherDefs ==
  { Obj("E", "rror", "TypeName", FALSE, FALSE),
    Obj("T", "ype", "TypeName", FALSE, FALSE),
    Obj("i", "nt", "TypeName", FALSE, FALSE),
    Obj("l", "en", "Func", FALSE, FALSE),
    Obj("S", "tring", "Func", TRUE, FALSE),
    Obj("c", "ross", "Func", TRUE, FALSE),
    Obj("C", "ross", "Func", FALSE, FALSE),
    Obj("r", "evive", "Func", FALSE, FALSE),
    Obj("n", "il", "Var", FALSE, FALSE),
    Obj("T", "", "TypeName", FALSE, TRUE) }

\* for ident, obj := range info.Defs: type parameters are skipped, functions
\* and type names are kept
newBuiltinDef(defs) ==
  SelectSeq(defs, LAMBDA obj : ~obj.typeParam /\ obj.kind \in {"Func", "TypeName"})

isMethod_always(obj) == TRUE

isMethod(obj) == obj.kind = "Func" /\ obj.recv

\* the first loop of init: for _, obj := range builtins
RECURSIVE CollectLoop(_, _, _, _)
CollectLoop(builtins, universe, i, gnoBuiltin) ==
  IF i > Len(builtins) THEN gnoBuiltin
  ELSE LET obj == builtins[i] IN
         CollectLoop(builtins, universe, i + 1,
           IF obj.Name \in excludeTypes THEN gnoBuiltin
           ELSE IF obj.Name \in DOMAIN universe THEN gnoBuiltin
           ELSE IF ~isMethod(obj)
             THEN [n \in DOMAIN gnoBuiltin \cup {obj.Name} |->
                     IF n = obj.Name THEN obj ELSE gnoBuiltin[n]]
           ELSE gnoBuiltin)

\* types.Universe.Insert: an object whose name is taken is not inserted
Insert(universe, obj) ==
  IF obj.Name \in DOMAIN universe THEN universe
  ELSE [n \in DOMAIN universe \cup {obj.Name} |->
          IF n = obj.Name THEN obj ELSE universe[n]]

\* the second loop of init: for name, obj := range gnoBuiltin
RECURSIVE RegisterLoop(_, _, _)
RegisterLoop(gnoBuiltin, names, universe) ==
  IF names = {} THEN universe
  ELSE LET name == CHOOSE n \in names : TRUE
           obj == gnoBuiltin[name]
       IN RegisterLoop(gnoBuiltin, names \ {name},
            IF obj.kind \in {"Func", "TypeName"}
              THEN Insert(universe, [obj EXCEPT !.Name = name, !.pkg = "nil"])
              ELSE universe)

init(defs, universe) ==
  LET gnoBuiltin == CollectLoop(newBuiltinDef(defs), universe, 1, [n \in {} |-> 0])
  IN [gnoBuiltin |-> gnoBuiltin,
      Universe |-> RegisterLoop(gnoBuiltin, DOMAIN gnoBuiltin, universe)]

IsGnoBuiltin(gnoBuiltin, universe, obj) ==
  IF Exported(obj.Name) THEN FALSE
  ELSE IF obj.Name \notin DOMAIN universe THEN FALSE
  ELSE IF obj.kind = "Func" /\ obj.recv THEN FALSE
  ELSE obj.Name \in DOMAIN gnoBuiltin

\* info.Defs: the declarations the test relies on and up to MaxDefs others,
\* before or after them (the iteration order of the map is arbitrary)
BuiltinArgs ==
  UNION {{[defs |-> d, universe |-> GoUniverse] :
            d \in UNION {{extra \o BuiltinGno, BuiltinGno \o extra} :
                           extra \in {e \in [1..n -> OtherDefs] :
                                        \A i, j \in 1..n : i # j => e[i] # e[j]}}}
         : n \in 0..MaxDefs}

InitBuiltin ==
  /\ IdleDriver
  /\ IdleGnotypes
  /\ pc = "call init"
  /\ arg \in BuiltinArgs
  /\ ret = <<>>

CallInit ==
  /\ pc = "call init"
  /\ pc' = "init returned"
  /\ ret' = init(arg.defs, arg.universe)
  /\ UNCHANGED <<driverVarsButPc, gnotypesVars, arg>>

\* IsGnoBuiltin(obj) for an object of the builtin file
CallIsGnoBuiltin ==
  /\ pc = "init returned"
  /\ pc' = "IsGnoBuiltin returned"
  /\ \E k \in 1..Len(arg.defs) :
       ret' = [gnoBuiltin |-> ret.gnoBuiltin, Universe |-> ret.Universe,
               obj |-> arg.defs[k],
               isBuiltin |-> IsGnoBuiltin(ret.gnoBuiltin, ret.Universe, arg.defs[k])]
  /\ UNCHANGED <<driverVarsButPc, gnotypesVars, arg>>

NextBuiltin == CallInit \/ CallIsGnoBuiltin

SpecBuiltin == InitBuiltin /\ [][NextBuiltin]_vars

-----------------------------------------------------------------------------
(* gnotypes.GuessBuiltinDir called by up to MaxCallers goroutines,         *)
(* MaxCalls times in all. pc maps each caller to its position, arg holds   *)
(* the environment, ret is the history of the calls that returned.         *)

MaxCallers == 2
MaxCalls == 3

Callers == 1..MaxCallers

RECURSIVE TrimLeft(_)
TrimLeft(s) == IF s # <<>> /\ Head(s) = " " THEN TrimLeft(Tail(s)) ELSE s

RECURSIVE TrimRight(_)
TrimRight(s) ==
  IF s # <<>> /\ s[Len(s)] = " " THEN TrimRight(SubSeq(s, 1, Len(s) - 1)) ELSE s

\* strings.TrimSpace
TrimSpace(s) == TrimRight(TrimLeft(s))

\* what guessBuiltinDir can return: the directory inferred from go.mod, the
\* one deduced from the caller's file path, or ErrUnableToGuessGnoBuiltin
guessBuiltinDir ==
  { [dir |-> <<"/mod", "/pkg/gnotypes/builtin">>, err |-> FALSE],
    [dir |-> <<"/src/pkg/gnotypes", "/builtin">>, err |-> FALSE],
    [dir |-> <<>>, err |-> TRUE] }

\* os.Getenv("GNOBUILTIN"), and _GNOBUILTIN as the build left it (-ldflags -X)
GuessEnvs == {<<>>, <<" ", "/env/builtin">>}
BuildValues == {<<>>, <<"/ld/builtin">>}

\* a call that returned: who, what, and whether it ran guessBuiltinDir
Returning(c, dir, err, guessed) ==
  ret' = Append(ret, [caller |-> c, dir |-> dir, err |-> err, guessed |-> guessed])

InCall(c) == pc[c] \in {"Lock", "Getenv", "_GNOBUILTIN", "guessBuiltinDir"}

Started == Len(ret) + Cardinality({c \in Callers : InCall(c)})

InitGuess ==
  /\ IdleDriver
  /\ pc = [c \in Callers |-> "idle"]
  /\ arg \in {[GNOBUILTIN |-> e] : e \in GuessEnvs}
  /\ ret = <<>>
  /\ muGnoBuiltin = 0
  /\ _GNOBUILTIN \in BuildValues
  /\ IdleClone

CallGuessBuiltinDir(c) ==
  /\ pc[c] = "idle"
  /\ Started < MaxCalls
  /\ pc' = [pc EXCEPT ![c] = "Lock"]
  /\ UNCHANGED <<driverVarsButPc, gnotypesVars, arg, ret>>

MutexFree_always(mu) == TRUE

MutexFree(mu) == mu = 0

\* muGnoBuiltin.Lock()
Lock(c) ==
  /\ pc[c] = "Lock"
  /\ MutexFree(muGnoBuiltin)
  /\ muGnoBuiltin' = c
  /\ pc' = [pc EXCEPT ![c] = "Getenv"]
  /\ UNCHANGED <<driverVarsButPc, _GNOBUILTIN, cloneVars, arg, ret>>

\* if builtindir := os.Getenv("GNOBUILTIN"); builtindir != "" { return ... }
Getenv(c) ==
  /\ pc[c] = "Getenv"
  /\ IF arg.GNOBUILTIN # <<>>
       THEN /\ Returning(c, TrimSpace(arg.GNOBUILTIN), FALSE, FALSE)
            /\ pc' = [pc EXCEPT ![c] = "Unlock"]
       ELSE /\ pc' = [pc EXCEPT ![c] = "_GNOBUILTIN"]
            /\ UNCHANGED ret
  /\ UNCHANGED <<driverVarsButPc, gnotypesVars, arg>>

\* if _GNOBUILTIN == "" { ... guessBuiltinDir() }, else return _GNOBUILTIN, nil
CheckMemo(c) ==
  /\ pc[c] = "_GNOBUILTIN"
  /\ IF _GNOBUILTIN = <<>>
       THEN /\ pc' = [pc EXCEPT ![c] = "guessBuiltinDir"]
            /\ UNCHANGED ret
       ELSE /\ Returning(c, _GNOBUILTIN, FALSE, FALSE)
            /\ pc' = [pc EXCEPT ![c] = "Unlock"]
  /\ UNCHANGED <<driverVarsButPc, gnotypesVars, arg>>

\* _GNOBUILTIN, err = guessBuiltinDir(); return _GNOBUILTIN, err
GuessReturns(c) ==
  /\ pc[c] = "guessBuiltinDir"
  /\ \E r \in guessBuiltinDir :
        /\ _GNOBUILTIN' = r.dir
        /\ Returning(c, r.dir, r.err, TRUE)
  /\ pc' = [pc EXCEPT ![c] = "Unlock"]
  /\ UNCHANGED <<driverVarsButPc, muGnoBuiltin, cloneVars, arg>>

\* defer muGnoBuiltin.Unlock()
Unlock(c) ==
  /\ pc[c] = "Unlock"
  /\ muGnoBuiltin' = 0
  /\ pc' = [pc EXCEPT ![c] = "idle"]
  /\ UNCHANGED <<driverVarsButPc, _GNOBUILTIN, cloneVars, arg, ret>>

NextGuess ==
  \E c \in Callers :
     \/ CallGuessBuiltinDir(c)
     \/ Lock(c)
     \/ Getenv(c)
     \/ CheckMemo(c)
     \/ GuessReturns(c)
     \/ Unlock(c)

SpecGuess == InitGuess /\ [][NextGuess]_vars

-----------------------------------------------------------------------------
(* cloneContext.CloneTypeWithNilPackage on a type graph of MaxTypes types.  *)
(* arg holds the graph: types[t] is the kind of t and the types the switch  *)
(* clones for it, in the order it clones them. The clones themselves are    *)
(* left out; cloneMap is the set of keys of ctx.cloneMap.                   *)

MaxTypes == 3

TypeIds == 1..MaxTypes

Type(kind, children) == [kind |-> kind, children |-> children]

\* the switch cases: for a Named type the underlying type and then the
\* method signatures, for a Signature the receiver and parameter types (the
\* Tuple between them is left out: it is registered like the Signature)
TypeChoices ==
  {Type("Basic", <<>>), Type("Struct", <<>>), Type("Signature", <<>>)}
  \cup {Type(k, <<e>>) : k \in {"Pointer", "Slice", "Struct", "Signature", "Named"},
                          e \in TypeIds}
  \cup {Type(k, <<a, b>>) : k \in {"Map", "Named"}, a \in TypeIds, b \in TypeIds}

\* what go/types can hand over: Underlying() of a Named type is not Named,
\* its methods have Signatures, the key of a Map is comparable
WellTyped(types) ==
  \A t \in TypeIds :
     /\ types[t].kind = "Named" =>
           /\ types[types[t].children[1]].kind # "Named"
           /\ \A i \in 2..Len(types[t].children) :
                 types[types[t].children[i]].kind = "Signature"
     /\ types[t].kind = "Map" => types[types[t].children[1]].kind = "Basic"

\* the kinds for which cloneMap[T] is set to a placeholder before the
\* component types are cloned
Placeholder(kind) == kind \in {"Struct", "Signature"}

\* the map on entry of the switch for t
Entered(t) == IF Placeholder(arg.types[t].kind) THEN cloneMap \cup {t} ELSE cloneMap

Frame(t, next) == [t |-> t, next |-> next]
Top == stack[Len(stack)]
Components(t) == arg.types[t].children

\* a goroutine stack holds finitely many frames. A run that returns never
\* has two frames for the same type entered with the same cloneMap (the call
\* is a function of both), and the map has fewer than MaxTypes keys while a
\* type is not in it, so such a run needs no more than StackLimit frames
StackLimit == MaxTypes * MaxTypes

InitClone ==
  /\ IdleDriver
  /\ muGnoBuiltin = 0
  /\ _GNOBUILTIN = <<>>
  /\ IdleClone
  /\ pc = "call CloneTypeWithNilPackage"
  /\ arg \in {a \in [types : [TypeIds -> TypeChoices], root : {1}] :
                /\ WellTyped(a.types)
                /\ a.types[a.root].kind = "Named"}
  /\ ret = <<>>

\* ctx.CloneTypeWithNilPackage(t) with an empty cloneMap
CallClone ==
  /\ pc = "call CloneTypeWithNilPackage"
  /\ pc' = "cloning"
  /\ stack' = <<Frame(arg.root, 1)>>
  /\ cloneMap' = Entered(arg.root)
  /\ UNCHANGED <<driverVarsButPc, muGnoBuiltin, _GNOBUILTIN, arg, ret>>

\* the next recursive call of the frame on top: it returns at once when
\* cloneMap has the type, else it enters the switch
CloneComponent ==
  /\ pc = "cloning"
  /\ Top.next <= Len(Components(Top.t))
  /\ LET c == Components(Top.t)[Top.next]
         caller == [stack EXCEPT ![Len(stack)].next = @ + 1]
     IN IF c \in cloneMap
          THEN /\ stack' = caller
               /\ UNCHANGED cloneMap
          ELSE /\ Len(stack) < StackLimit
               /\ stack' = Append(caller, Frame(c, 1))
               /\ cloneMap' = Entered(c)
  /\ UNCHANGED <<driverVarsButPc, muGnoBuiltin, _GNOBUILTIN, pc, arg, ret>>

\* the recursion does not end: the goroutine stack is exhausted
StackOverflow ==
  /\ pc = "cloning"
  /\ Top.next <= Len(Components(Top.t))
  /\ Components(Top.t)[Top.next] \notin cloneMap
  /\ Len(stack) = StackLimit
  /\ pc' = "stack overflow"
  /\ UNCHANGED <<driverVarsButPc, gnotypesVars, arg, ret>>

\* ctx.cloneMap[t] = result; return result
CloneReturn ==
  /\ pc = "cloning"
  /\ Top.next > Len(Components(Top.t))
  /\ cloneMap' = cloneMap \cup {Top.t}
  /\ stack' = SubSeq(stack, 1, Len(stack) - 1)
  /\ pc' = IF Len(stack) = 1 THEN "CloneTypeWithNilPackage returned" ELSE pc
  /\ UNCHANGED <<driverVarsButPc, muGnoBuiltin, _GNOBUILTIN, arg, ret>>

NextClone == CallClone \/ CloneComponent \/ StackOverflow \/ CloneReturn

SpecClone == InitClone /\ [][NextClone]_vars

-----------------------------------------------------------------------------
(* Properties of resolveNameAndImports (SpecName) *)

NameReturned == pc = "resolveNameAndImports returned"

NameFileCount == Len(arg.pkg.CompiledGoFiles)

\* the package clause of the i-th file, as the bytes on disk have it
ClauseAt(i) == arg.disk[arg.pkg.CompiledGoFiles[i]].clause

\* the i-th file was parsed and its clause does not end in _test
Counted(i) ==
  /\ arg.pkg.CompiledGoFiles[i] \in DOMAIN arg.disk
  /\ ~HasSuffix(ClauseAt(i), TestSuffix)

\* occurrences of the i-th file's clause name among the files 1..upto
Occurrences(i, upto) ==
  Cardinality({j \in 1..upto : Counted(j) /\ ClauseAt(j) = ClauseAt(i)})

CountedFiles == {i \in 1..NameFileCount : Counted(i)}

MaxOccurrences ==
  IF CountedFiles = {} THEN 0
  ELSE CHOOSE m \in 1..NameFileCount :
         /\ \E i \in CountedFiles : Occurrences(i, NameFileCount) = m
         /\ \A i \in CountedFiles : Occurrences(i, NameFileCount) <= m

\* the first file, in file order, at which a name reaches the maximum count
FirstToReachMax ==
  CHOOSE i \in CountedFiles :
    /\ Occurrences(i, i) = MaxOccurrences
    /\ \A j \in CountedFiles : Occurrences(j, j) = MaxOccurrences => i <= j

\* C4: for a package whose Name is not preset, resolveNameAndImports sets Name
\* to the clause name (names ending in _test ignored) that is first, in file
\* order, to reach the maximum occurrence count; with no counted file Name
\* stays empty.
C4_MajorityName ==
  (NameReturned /\ arg.pkg.Name = <<>>) =>
     ret[1].Name = IF CountedFiles = {} THEN <<>> ELSE ClauseAt(FirstToReachMax)

\* a tie: two different names both reach the maximum, the earlier one is kept
C4_Witness ==
  /\ NameReturned
  /\ arg.pkg.Name = <<>>
  /\ \E i, j \in CountedFiles :
       /\ i < j
       /\ ClauseAt(i) # ClauseAt(j)
       /\ Occurrences(i, NameFileCount) = MaxOccurrences
       /\ Occurrences(j, NameFileCount) = MaxOccurrences
       /\ i = FirstToReachMax
       /\ ret[1].Name = ClauseAt(i)

\* the bytes the parser is given for the i-th file
NameSrc(i) == ResolveSrc(arg.ov, arg.disk, arg.pkg.CompiledGoFiles[i])

\* parsing the i-th file fails: unreadable, malformed clause, or a syntax error
\* in the import declarations
ParseFails(i) ==
  \/ ~NameSrc(i).readable
  \/ NameSrc(i).clause = <<>>
  \/ NameSrc(i).synerr

\* C23: when parsing a member file fails, resolveNameAndImports returns with at
\* least one ParseError for that file on the package, and every file that
\* could be read still contributes: its imports are keys of Imports and its
\* clause is counted for Name.
C23_ParseFailureKeepsSiblings ==
  NameReturned =>
     /\ Len(ret) = 1
     /\ \A i \in 1..NameFileCount :
           ParseFails(i) =>
              \E k \in 1..Len(ret[1].Errors) :
                 /\ ret[1].Errors[k].Pos = arg.pkg.CompiledGoFiles[i]
                 /\ ret[1].Errors[k].Kind = "ParseError"
     /\ \A i \in 1..NameFileCount :
           NameSrc(i).readable =>
              \A v \in NameSrc(i).imports : Unquote(v) \in DOMAIN ret[1].Imports
     /\ (arg.pkg.Name = <<>> /\ CountedFiles # {}) =>
           ret[1].Name = ClauseAt(FirstToReachMax)

\* the second of three files cannot be read; the third one decides the name
\* together with the first and brings an import of its own
C23_Witness ==
  /\ NameReturned
  /\ NameFileCount = 3
  /\ arg.pkg.Name = <<>>
  /\ ~ParseFails(1) /\ ParseFails(2) /\ ~ParseFails(3)
  /\ ~NameSrc(2).readable
  /\ NameSrc(3).imports # {} /\ NameSrc(3).imports # NameSrc(1).imports
  /\ \A v \in NameSrc(3).imports : Unquote(v) \in DOMAIN ret[1].Imports
  /\ ret[1].Name = ClauseAt(3)
  /\ \E k \in 1..Len(ret[1].Errors) : ret[1].Errors[k].Pos = arg.pkg.CompiledGoFiles[2]

-----------------------------------------------------------------------------
(* Properties of readPkg (SpecRead) *)

ReadReturned == pc = "readPkg returned" /\ Len(ret) = 2

Files(pkg) == Range(pkg.GoFiles)

\* the member files of the directory: .gno files that are not filetests
Members ==
  {Join(arg.dir, arg.mem.Files[i].Name) : i \in
     {j \in 1..Len(arg.mem.Files) :
        /\ HasSuffix(arg.mem.Files[j].Name, GnoExt)
        /\ ~HasSuffix(arg.mem.Files[j].Name, FiletestSuffix)}}

OnDisk(path) ==
  \E i \in 1..Len(arg.mem.Files) : Join(arg.dir, arg.mem.Files[i].Name) = path

DiskBytes(path) ==
  arg.mem.Files[CHOOSE i \in 1..Len(arg.mem.Files) :
                  Join(arg.dir, arg.mem.Files[i].Name) = path].Body

\* the bytes that count for a file: the overlay's when it has the path
Bytes(path) == IF path \in DOMAIN arg.ov THEN arg.ov[path] ELSE DiskBytes(path)

ExternalTestFile(path) ==
  /\ HasSuffix(path.name, TestFileSuffix)
  /\ HasSuffix(Bytes(path).clause, TestSuffix)

\* C5: readPkg partitions the member files: a file is in the external-test
\* package iff its name ends in _test.gno and its package clause ends in
\* _test; every other member file is in the ordinary package; no file is in
\* both, none is lost, none is listed twice.
C5_TestSplit ==
  ReadReturned =>
     /\ Files(ret[2]) = {p \in Members : ExternalTestFile(p)}
     /\ Files(ret[1]) = {p \in Members : ~ExternalTestFile(p)}
     /\ Len(ret[1].GoFiles) + Len(ret[2].GoFiles) = Cardinality(Members)
     /\ ret[1].CompiledGoFiles = ret[1].GoFiles
     /\ ret[2].CompiledGoFiles = ret[2].GoFiles

\* both packages get files, and an internal test file stays in the ordinary one
C5_Witness ==
  /\ ReadReturned
  /\ Files(ret[2]) # {}
  /\ \E p \in Files(ret[1]) : HasSuffix(p.name, TestFileSuffix)
  /\ \E p \in Files(ret[1]) : ~HasSuffix(p.name, TestFileSuffix)

\* C6: the external-test package has ID and PkgPath equal to the ordinary
\* package's PkgPath followed by _test and Name equal to the ordinary
\* package's resolved Name followed by _test, also after name resolution ran
\* over the external-test package's own files.
C6_XTestIdentity ==
  ReadReturned =>
     /\ ret[1].PkgPath = arg.pkgPath
     /\ ret[2].ID = ret[1].PkgPath \o TestSuffix
     /\ ret[2].PkgPath = ret[1].PkgPath \o TestSuffix
     /\ ret[2].Name = ret[1].Name \o TestSuffix

\* the external-test package has files of its own and the ordinary one a name
C6_Witness ==
  /\ ReadReturned
  /\ Files(ret[2]) # {}
  /\ ret[1].Name # <<>>
  /\ ret[2].Name = ret[1].Name \o TestSuffix

PackageOf(path) == IF path \in Files(ret[2]) THEN ret[2] ELSE ret[1]

OverlayCandidates ==
  {p \in DOMAIN arg.ov :
     /\ p.dir = arg.dir
     /\ HasSuffix(p.name, GnoExt)
     /\ ~HasSuffix(p.name, FiletestSuffix)}

OverlayUsed(p) ==
  /\ p \in Files(ret[1]) \cup Files(ret[2])
  /\ p \in Files(ret[2]) <=>
       (HasSuffix(p.name, TestFileSuffix) /\ HasSuffix(arg.ov[p].clause, TestSuffix))
  /\ {Unquote(v) : v \in arg.ov[p].imports} \subseteq DOMAIN PackageOf(p).Imports

\* C3: for every file whose path is a key of the overlay, membership, test
\* split and name/import resolution use the overlay bytes, also when the file
\* does not exist on disk: an overlay-only file of the directory is a member.
C3_OverlayPrecedence ==
  ReadReturned => \A p \in OverlayCandidates : OverlayUsed(p)

\* what the code does do: the overlay bytes are used for the files on disk
OverlayUsedForFilesOnDisk ==
  ReadReturned => \A p \in OverlayCandidates : OnDisk(p) => OverlayUsed(p)

\* the entries of pkg.Errors that are ParseErrors at the file
ParseErrorsAt(pkg, path) ==
  {k \in 1..Len(pkg.Errors) :
      pkg.Errors[k].Kind = "ParseError" /\ pkg.Errors[k].Pos = path}

\* every ParseError of the package is at one of the package's own files
ErrorsOfOwnFiles(pkg) ==
  \A k \in 1..Len(pkg.Errors) :
     pkg.Errors[k].Kind = "ParseError" => pkg.Errors[k].Pos \in Files(pkg)

\* C28: every ParseError in a package's Errors is at a file of that package
\* (the error of a _test.gno file of the external-test package is on the
\* external-test package, not on the ordinary one), and each parse failure of
\* a file is recorded once.
C28_ParseErrorsOnOwner ==
  ReadReturned =>
     /\ ErrorsOfOwnFiles(ret[1])
     /\ ErrorsOfOwnFiles(ret[2])
     /\ \A p \in Members :
           Cardinality(ParseErrorsAt(PackageOf(p), p))
             = Len(ParseFile(Bytes(p), "ImportsOnly").errs)

\* what the code does do: the errors are on the owning package
ParseErrorsOnOwnFiles ==
  ReadReturned => ErrorsOfOwnFiles(ret[1]) /\ ErrorsOfOwnFiles(ret[2])

-----------------------------------------------------------------------------
(* Properties of Resolve (Spec) *)

Returned == result = "ok"

PkgIndex == 1..Len(Packages)

HasPkgPath(path) == \E j \in PkgIndex : Packages[j].PkgPath = path

\* C1: after Resolve returns successfully, for every package P of Packages and
\* every key k of P.Imports, P.Imports[k] is not nil, is an element of Packages
\* (the same object: an index into Packages) and has PkgPath k.
C1_ImportsLinked ==
  Returned =>
     \A i \in PkgIndex : \A k \in DOMAIN Packages[i].Imports :
        /\ Packages[i].Imports[k] \in PkgIndex
        /\ Packages[Packages[i].Imports[k]].PkgPath = k

\* a package is linked to one discovered after it, and another to one before it
C1_Witness ==
  /\ Returned
  /\ \E i \in PkgIndex : \E k \in DOMAIN Packages[i].Imports : Packages[i].Imports[k] > i
  /\ \E i \in PkgIndex : \E k \in DOMAIN Packages[i].Imports : Packages[i].Imports[k] < i

\* C2: after linking, an import path recorded for a package that is the
\* PkgPath of no discovered package is not a key of that package's Imports,
\* for every package of Packages.
C2_DanglingRemoved ==
  Returned =>
     \A i \in PkgIndex : \A k \in recorded[i] :
        ~HasPkgPath(k) => k \notin DOMAIN Packages[i].Imports

\* a package lost a dangling import and kept a resolvable one
C2_Witness ==
  /\ Returned
  /\ \E i \in PkgIndex :
       /\ \E k \in recorded[i] : ~HasPkgPath(k) /\ k \notin DOMAIN Packages[i].Imports
       /\ \E k \in recorded[i] : HasPkgPath(k) /\ k \in DOMAIN Packages[i].Imports

\* C7: every package of the response that carries no Errors has at least one
\* entry in GoFiles; an external-test package without files, or a directory
\* without member files, contributes no package.
C7_NoEmptyPackage ==
  Returned =>
     \A i \in PkgIndex : Packages[i].Errors = <<>> => Len(Packages[i].GoFiles) > 0

BuiltinPkgs == {i \in PkgIndex : Packages[i].PkgPath = builtinPath}

BuiltinRequested == \E i \in 1..Len(patterns) : patterns[i] = BuiltinPattern

OneBuiltinPackage ==
  /\ Cardinality(BuiltinPkgs) = 1
  /\ \A i \in BuiltinPkgs :
       /\ Len(Packages[i].GoFiles) = 1
       /\ DOMAIN Packages[i].Imports = {}
       /\ \E r \in 1..Len(Roots) : Roots[r] = Packages[i].ID

\* C8 as claimed: if the patterns contain "builtin", the response holds exactly
\* one package with PkgPath "builtin", with one file, no imports and its ID in
\* Roots; if no pattern is "builtin", none is synthesized.
C8_BuiltinAlways ==
  Returned => IF BuiltinRequested THEN OneBuiltinPackage ELSE BuiltinPkgs = {}

\* C8 as amended: the same, unless gnotypes.GuessBuiltinDir fails; then the
\* response holds no builtin package, "builtin" is not in Roots, and Resolve
\* still succeeds.
C8_BuiltinUnlessGuessFails ==
  Returned =>
     IF BuiltinRequested /\ builtinGuess # "err"
       THEN OneBuiltinPackage
       ELSE BuiltinPkgs = {} /\ \A r \in 1..Len(Roots) : Roots[r] # builtinPath

\* "builtin" was requested twice and one package came of it
C8_Witness ==
  /\ Returned
  /\ Cardinality({i \in 1..Len(patterns) : patterns[i] = BuiltinPattern}) >= 2
  /\ builtinGuess = "ok"
  /\ OneBuiltinPackage
  /\ Len(Packages) > 1

InRoots(id) == \E r \in 1..Len(Roots) : Roots[r] = id

\* C9: no package injected from the standard-library root or from the
\* test-library root has its ID in Roots, at any point of Resolve; a loaded
\* package with a standard-library import path adds no root.
C9_LibsNotRoots ==
  \A i \in PkgIndex : origin[i] \in {"lib", "testlib"} => ~InRoots(Packages[i].ID)

\* library packages were injected, the loader returned a matched
\* standard-library package, and other packages are roots
C9_Witness ==
  /\ Returned
  /\ \E i \in PkgIndex : origin[i] = "lib"
  /\ \E i \in PkgIndex : origin[i] = "testlib"
  /\ \E i \in 1..Len(loadedPkgs) :
       IsStdlib(loadedPkgs[i].ImportPath) /\ loadedPkgs[i].Match # {}
  /\ Roots # <<>>

\* C10 as claimed: every package produced by a non-stdlib, non-builtin source,
\* one loaded only as a dependency included, has its ID in Roots.
C10_AllLoadedAreRoots ==
  Returned =>
     \A i \in PkgIndex : origin[i] \in {"matched", "dep"} => InRoots(Packages[i].ID)

\* C10 as amended: every package converted from a loaded package that matched
\* a pattern has its ID in Roots, and every element of Roots is the ID of such
\* a package or of the builtin package: a package loaded only as a dependency
\* adds nothing to Roots.
C10_MatchedAreRoots ==
  Returned =>
     /\ \A i \in PkgIndex : origin[i] = "matched" => InRoots(Packages[i].ID)
     /\ \A r \in 1..Len(Roots) :
          \E i \in PkgIndex :
             origin[i] \in {"matched", "builtin"} /\ Packages[i].ID = Roots[r]

\* a matched package and a dependency were both converted
C10_Witness ==
  /\ Returned
  /\ \E i \in PkgIndex : origin[i] = "matched" /\ InRoots(Packages[i].ID)
  /\ \E i \in PkgIndex : origin[i] = "dep" /\ ~InRoots(Packages[i].ID)

NonTest(i) == ~HasSuffix(Packages[i].PkgPath, TestSuffix)

FailedAtQuery == result = "err" /\ pi <= Len(patterns)

\* C12 as claimed: Resolve never returns an error at a pattern that matched no
\* package; whenever it failed at a file= pattern, that pattern had matched.
C12_NeverFailsOnUnmatched ==
  FailedAtQuery => listPackagesPath(queryTree).gnomods # <<>>

\* C12 as amended: Resolve returns an error at a file= pattern only when the
\* walk of its directory reported an error, and after the pattern loop only
\* when the loader returned one (nothing was loaded); a pattern that matches
\* no package is by itself no error.
C12_FailsOnlyOnWalkOrLoadError ==
  result = "err" =>
     IF pi <= Len(patterns)
       THEN listPackagesPath(queryTree).err
       ELSE loadedPkgs = <<>> /\ Roots \in {<<>>, <<builtinPath>>}

\* a file= pattern whose directory holds no descriptor: Resolve succeeds with
\* library packages in Packages and no root
C12_Witness ==
  /\ Returned
  /\ \E i \in 1..Len(patterns) : HasPrefix(patterns[i], FilePrefix)
  /\ queryTree # <<>>
  /\ listPackagesPath(queryTree) = [err |-> FALSE, gnomods |-> <<>>]
  /\ Roots = <<>>
  /\ Packages # <<>>

Linking == pc = "link" /\ li <= Len(Packages)

\* C14: Resolve is a function of its inputs: whatever order the map iteration
\* of the linking loop takes, the package it leaves is the same in every field
\* (ID, PkgPath, Name, file lists, Imports); Roots is not touched by linking.
C14_LinkOrderIndependent ==
  Linking =>
     \A i \in PkgIndex :
        Cardinality({LinkPackage(Packages, Packages[i], o) :
                       o \in KeyOrders(DOMAIN Packages[i].Imports)}) = 1

\* a package with at least three import keys, some linked and some deleted,
\* has been linked
C14_Witness ==
  /\ Returned
  /\ \E i \in PkgIndex :
       /\ Cardinality(recorded[i]) >= 3
       /\ DOMAIN Packages[i].Imports # {}
       /\ DOMAIN Packages[i].Imports # recorded[i]
       /\ \A k \in DOMAIN Packages[i].Imports : Packages[i].Imports[k] # 0

\* the import paths of the import declarations of a file, in the bytes that
\* count for it: the overlay's, else those on disk
FileImports(path) ==
  {Unquote(lit) : lit \in ResolveSrc(overlay, diskFiles, path).imports}

FinalFileImports(i) ==
  UNION {FileImports(Packages[i].GoFiles[j]) : j \in 1..Len(Packages[i].GoFiles)}

\* C15: in the response, every key of a package's Imports is an import path
\* of an import declaration of a file of that package's final file list, also
\* for a library package patched from the test-library root.
C15_ImportsFromFinalFiles ==
  Returned =>
     \A i \in PkgIndex : DOMAIN Packages[i].Imports \subseteq FinalFileImports(i)

\* what the patterns before the n+1-th hand to the loader when every file=
\* pattern contributes the directory of its file and nothing else
RECURSIVE OneDirectoryPerQuery(_)
OneDirectoryPerQuery(n) ==
  IF n = 0 THEN <<>>
  ELSE LET pattern == patterns[n] IN
         IF HasPrefix(pattern, FilePrefix)
           THEN Append(OneDirectoryPerQuery(n - 1),
                       TrimPrefix(SplitDir(pattern), FilePrefix))
         ELSE IF pattern = BuiltinPattern THEN OneDirectoryPerQuery(n - 1)
         ELSE Append(OneDirectoryPerQuery(n - 1), pattern)

\* C16: a file= pattern contributes to discovery exactly one package
\* directory, the one that contains the file; and when the locator yields a
\* number of directories other than one without a walk error, Resolve does not
\* return an error at that pattern.
C16_FileQueryOneDirectory ==
  /\ result # "err" => loaderPatterns = OneDirectoryPerQuery(pi - 1)
  /\ (queryTree # <<>> /\ ~listPackagesPath(queryTree).err) => ~FailedAtQuery

IsFiletest(path) == HasSuffix(path.name, FiletestSuffix)

\* C17: no package of the response lists a file whose name ends in
\* _filetest.gno, in GoFiles or in CompiledGoFiles: not a user package, not a
\* library package and not a library package patched from the test library.
C17_NoFiletestFiles ==
  Returned =>
     \A i \in PkgIndex :
        /\ \A j \in 1..Len(Packages[i].GoFiles) : ~IsFiletest(Packages[i].GoFiles[j])
        /\ \A j \in 1..Len(Packages[i].CompiledGoFiles) :
              ~IsFiletest(Packages[i].CompiledGoFiles[j])

Unlinked(pkg) == \A k \in DOMAIN pkg.Imports : pkg.Imports[k] = 0

\* C19: discover everything, then link.  A step taken before the linking loop
\* leaves the packages already in Packages as they are and appends only
\* packages whose Imports hold no package; a step of the linking loop or
\* after it does not change the number of packages.
C19_DiscoverThenLink ==
  [][IF pc \notin {"link", "done"}
       THEN /\ Len(Packages') >= Len(Packages)
            /\ \A i \in 1..Len(Packages) : Packages'[i] = Packages[i]
            /\ \A i \in 1..Len(Packages') :
                  /\ Unlinked(Packages'[i])
                  /\ DOMAIN Packages'[i].Imports = recorded'[i]
       ELSE Len(Packages') = Len(Packages)]_vars

\* the linking loop has run after library injection, test-library injection,
\* builtin synthesis and the conversion of a loaded package; it has assigned
\* a package to one import and deleted another
C19_Witness ==
  /\ pc = "link"
  /\ li > Len(Packages)
  /\ {"lib", "testlib", "builtin", "matched"} \subseteq Range(origin)
  /\ \E i \in PkgIndex : ~Unlinked(Packages[i])
  /\ \E i \in PkgIndex : DOMAIN Packages[i].Imports # recorded[i]

\* C20: in the response, when a file of a package's final file list imports a
\* path that is the PkgPath of a discovered non-test package, the package's
\* Imports maps that path to that package, wherever the two stand in
\* Packages (before, after, the package itself).
C20_ImportsOfFilesLinked ==
  Returned =>
     \A i \in PkgIndex : \A p \in FinalFileImports(i) :
        (\E j \in PkgIndex : NonTest(j) /\ Packages[j].PkgPath = p) =>
           /\ p \in DOMAIN Packages[i].Imports
           /\ Packages[i].Imports[p] \in PkgIndex
           /\ NonTest(Packages[i].Imports[p])
           /\ Packages[Packages[i].Imports[p]].PkgPath = p

\* C21: the builtin pseudo-package is never an importer: at every point of
\* Resolve its Imports is the empty map it was synthesized with; and in the
\* response every other package that recorded an import of "builtin" is
\* linked to the pseudo-package, when one was synthesized.
C21_BuiltinTargetNotSource ==
  /\ \A i \in PkgIndex :
        origin[i] = "builtin" => Packages[i].Imports = NoImports /\ recorded[i] = {}
  /\ Returned =>
       \A i, b \in PkgIndex :
          (origin[b] = "builtin" /\ origin[i] # "builtin" /\ builtinPath \in recorded[i]) =>
             /\ builtinPath \in DOMAIN Packages[i].Imports
             /\ Packages[i].Imports[builtinPath] = b

\* a user package that imports "builtin" has been linked to the synthesized
\* pseudo-package
C21_Witness ==
  /\ Returned
  /\ \E i, b \in PkgIndex :
       /\ origin[b] = "builtin"
       /\ origin[i] \in {"matched", "dep"}
       /\ builtinPath \in DOMAIN Packages[i].Imports
       /\ Packages[i].Imports[builtinPath] = b

\* C22: the lookup of linking considers non-test packages only: in the
\* response no Imports value is an external-test package, and the PkgPath of
\* an external-test package (a path ending in _test) is a key of no Imports.
C22_NoLinkToXTest ==
  Returned =>
     \A i \in PkgIndex :
        /\ \A k \in DOMAIN Packages[i].Imports :
              Packages[i].Imports[k] \in PkgIndex => NonTest(Packages[i].Imports[k])
        /\ \A j \in PkgIndex :
              ~NonTest(j) => Packages[j].PkgPath \notin DOMAIN Packages[i].Imports

\* the entries of the test-library directory that patch a package
Patching(entry) ==
  ~entry.isDir /\ ~IsDot(entry.Name) /\ HasSuffix(entry.Name, GnoExt)

PatchNames(testsDir) == {testsDir[i].Name : i \in {j \in 1..Len(testsDir) : Patching(testsDir[j])}}

\* a file list after the patch, against the list before it
PatchedInPlace(before, after, testLibDir, names) ==
  /\ \A f \in names :
        /\ Cardinality({k \in 1..Len(after) : Base(after[k]) = f}) = 1
        /\ \A k \in 1..Len(after) : Base(after[k]) = f => after[k] = Join(testLibDir, f)
        /\ \A k \in 1..Len(before) :
              Base(before[k]) = f => k <= Len(after) /\ after[k] = Join(testLibDir, f)
  /\ SelectSeq(after, LAMBDA src : Base(src) \notin names)
       = SelectSeq(before, LAMBDA src : Base(src) \notin names)

\* C24: a library package patched from the test-library directory of its path
\* has, for every non-hidden .gno file name there, exactly one entry of that
\* base name in GoFiles and in CompiledGoFiles, the test-library path; a
\* replaced entry keeps its position, the other entries are unchanged, and so
\* are ID, PkgPath and Name.
C24_PatchInPlace ==
  [][\A mem \in LibMems :
       LET path == Head(walk).path
           before == SelectSeq(readPkg(overlay, Dir(LibsRoot, path), path, mem),
                               Materialized)
       IN (/\ pc = "stdlibs" /\ walk # <<>> /\ ~SkipEntry(Head(walk))
           /\ mem \in LibMemsAt(walk)
           /\ path \in DOMAIN testLibFS
           /\ Packages' = Packages \o InjectLib(testLibFS, before, path))
          => \A i \in 1..Len(before) :
                LET after == Packages'[Len(Packages) + i]
                    names == PatchNames(testLibFS[path])
                    testLibDir == Dir(TestLibsRoot, path)
                IN /\ PatchedInPlace(before[i].GoFiles, after.GoFiles, testLibDir, names)
                   /\ PatchedInPlace(before[i].CompiledGoFiles, after.CompiledGoFiles,
                                     testLibDir, names)
                   /\ after.ID = before[i].ID
                   /\ after.PkgPath = before[i].PkgPath
                   /\ after.Name = before[i].Name]_vars

\* the walk of the directory of a file= pattern reported an error
WalkFailed == queryTree # <<>> /\ listPackagesPath(queryTree).err

\* C25: when the directory walk for a file= pattern fails, Resolve returns an
\* error and no response: it stops in the pattern loop, nothing was put in
\* Packages or Roots, and no library walk, builtin injection, load or linking
\* step has run or can run.
C25_WalkFailureReturnsNoResponse ==
  WalkFailed =>
     /\ result = "err"
     /\ pc = "done"
     /\ pi <= Len(patterns) /\ HasPrefix(patterns[pi], FilePrefix)
     /\ Packages = <<>> /\ Roots = <<>>
     /\ gnoRoot = "" /\ walk = <<>> /\ builtinGuess = "none"
     /\ loadedPkgs = <<>> /\ li = 1
     /\ ~ENABLED Next

\* the failing file= pattern comes after a directory pattern that was
\* classified without error
C25_Witness ==
  /\ WalkFailed
  /\ result = "err"
  /\ pi = 2
  /\ loaderPatterns = <<DirPattern>>

\* C26: the linking loop changes only Imports maps: the Packages sequence
\* keeps its length and order, every package keeps its ID, PkgPath, Name,
\* GoFiles, CompiledGoFiles and Errors, Roots is the same, and the keys of
\* each Imports map after linking are among its keys before linking.
C26_LinkingFrame ==
  [][Linking =>
       /\ Roots' = Roots
       /\ Len(Packages') = Len(Packages)
       /\ \A i \in PkgIndex :
             /\ Packages'[i] = [Packages[i] EXCEPT !.Imports = Packages'[i].Imports]
             /\ DOMAIN Packages'[i].Imports \subseteq DOMAIN Packages[i].Imports]_vars

\* the loop has run: one import was linked to a package and another, that no
\* package has, was deleted
C26_Witness ==
  /\ pc = "link"
  /\ li > Len(Packages)
  /\ \E i \in PkgIndex :
        /\ DOMAIN Packages[i].Imports # recorded[i]
        /\ \E k \in DOMAIN Packages[i].Imports : Packages[i].Imports[k] \in PkgIndex

\* C29: after a successful Resolve every string in Roots is the ID of a
\* package in Packages.
C29_RootsArePackageIDs ==
  Returned =>
     \A r \in 1..Len(Roots) : \E i \in PkgIndex : Packages[i].ID = Roots[r]

\* the roots are the builtin pseudo-package, a matched package and its
\* external-test package
C29_Witness ==
  /\ Returned
  /\ \E r \in 1..Len(Roots) : Roots[r] = builtinPath
  /\ \E r, t \in 1..Len(Roots), i, j \in PkgIndex :
        /\ origin[i] = "matched" /\ Packages[i].ID = Roots[r]
        /\ origin[j] = "matched" /\ Packages[j].ID = Roots[t]
        /\ Roots[t] = Roots[r] \o TestSuffix

-----------------------------------------------------------------------------
(* Properties of listPackagesPath (SpecList) *)

ListReturned == pc = "listPackagesPath returned"

\* the directories with a descriptor among the callbacks without error
RootsOutsideFailedSubtrees ==
  LET ok == SelectSeq(arg.tree, LAMBDA e : ~e.err /\ e.isDir /\ HasDescriptor(e))
  IN [i \in 1..Len(ok) |-> ok[i].path]

\* C13: an error on a subtree of the walk (not on its root) is swallowed:
\* listPackagesPath returns no error and the package roots found in the rest
\* of the walk.
C13_WalkErrorsSwallowed ==
  (ListReturned /\ ~arg.tree[1].err) =>
     /\ ~ret.err
     /\ ret.gnomods = RootsOutsideFailedSubtrees

-----------------------------------------------------------------------------
(* Properties of GuessBuiltinDir (SpecGuess) *)

Guessing == {c \in Callers : pc[c] = "guessBuiltinDir"}

\* the i-th call that returned ran guessBuiltinDir and it succeeded
GuessSucceeded(i) == ret[i].guessed /\ ~ret[i].err

\* C27: with GNOBUILTIN unset, under every interleaving of concurrent callers
\* of GuessBuiltinDir at most one caller is inside guessBuiltinDir at a time,
\* no caller runs it once a run has succeeded, and every call that returns
\* after that success returns the memoized directory without error.
C27_GuessOnceUnderMutex ==
  arg.GNOBUILTIN = <<>> =>
     /\ Cardinality(Guessing) <= 1
     /\ \A i \in 1..Len(ret) :
           GuessSucceeded(i) =>
              /\ Guessing = {}
              /\ _GNOBUILTIN = ret[i].dir
              /\ \A j \in (i + 1)..Len(ret) :
                    ~ret[j].guessed /\ ~ret[j].err /\ ret[j].dir = ret[i].dir

\* a failed guess, then a successful one by the other caller while the first
\* waited for the mutex, then a call that returns the memoized directory
C27_Witness ==
  /\ arg.GNOBUILTIN = <<>>
  /\ Len(ret) = 3
  /\ ret[1].guessed /\ ret[1].err
  /\ GuessSucceeded(2) /\ ret[2].caller # ret[1].caller
  /\ ~ret[3].guessed /\ ret[3].dir = ret[2].dir /\ ret[3].caller # ret[2].caller

-----------------------------------------------------------------------------
(* Properties of CloneTypeWithNilPackage (SpecClone) *)

\* C30: CloneTypeWithNilPackage terminates on every finite type graph, also
\* when a named type refers to itself through a pointer, slice, map, struct
\* field or method signature: the recursion never exhausts the stack, and
\* until the call has returned there is a next step.
C30_CloneTerminates ==
  /\ pc # "stack overflow"
  /\ pc = "CloneTypeWithNilPackage returned" \/ ENABLED NextClone

\* what the code does do: a named type that refers to itself only through
\* struct fields and signatures is cloned
SelfReferenceThroughStruct ==
  /\ pc = "CloneTypeWithNilPackage returned"
  /\ arg.types = [t \in TypeIds |->
                    IF t = 1 THEN Type("Named", <<2>>)
                    ELSE IF t = 2 THEN Type("Struct", <<3>>)
                    ELSE Type("Pointer", <<1>>)]

-----------------------------------------------------------------------------
(* Properties of gnotypes init and IsGnoBuiltin (SpecBuiltin) *)

InitDone == pc \in {"init returned", "IsGnoBuiltin returned"}

\* a function or type of the builtin file that is no method, is not in the
\* exclusion list and is not in the Go universe
ToRegister(obj) ==
  /\ obj.kind \in {"Func", "TypeName"}
  /\ ~obj.typeParam
  /\ ~(obj.kind = "Func" /\ obj.recv)
  /\ obj.Name \notin excludeTypes
  /\ obj.Name \notin DOMAIN arg.universe

\* the identifiers TestGnoBuiltin uses without declaring them: crossing and
\* cross are called, the others are the underlying type of a type declaration
UsedUndeclared ==
  { [Name |-> <<"c", "rossing">>, kind |-> "Func"],
    [Name |-> <<"c", "ross">>, kind |-> "Func"],
    [Name |-> <<"a", "ddress">>, kind |-> "TypeName"],
    [Name |-> <<"g", "nocoin">>, kind |-> "TypeName"],
    [Name |-> <<"g", "nocoins">>, kind |-> "TypeName"],
    [Name |-> <<"r", "ealm">>, kind |-> "TypeName"] }

====
